---------------------------- MODULE Spec2Model ----------------------------
(***************************************************************************)
(* Shape bookkeeping of torch/padded/padded_tensor.py: the PaddedTensor    *)
(* constructor and unpad, the shape-inference rules registered in          *)
(* PADDED_OP_TABLE, and one activation of __torch_dispatch__.              *)
(*                                                                         *)
(* A tensor is represented by its shape (a sequence of integers); a        *)
(* PaddedTensor by the shape of its physical buffer, its orig_shape and    *)
(* its multipliers.  A call that raises is represented by a record whose   *)
(* err field names the exception.                                          *)
(***************************************************************************)
EXTENDS Integers, Sequences, FiniteSets, TLC

VARIABLES
    self,             \* the PaddedTensor last constructed or returned
    pc,               \* position within the __torch_dispatch__ activation
    func,             \* func._opname of the activation
    args,             \* its positional arguments
    orig_out_shapes,  \* what op.infer_shapes returned
    out,              \* the kernel's outputs, then the wrapped results
    raised,           \* the exception the activation raised and where
    kernel_calls,     \* invocations of the kernel func in the activation
    ret               \* the return value of the last unpad or helper call

vars == <<self, pc, func, args, orig_out_shapes, out, raised, kernel_calls, ret>>

(***************************************************************************)
(* Bounds of the model.                                                    *)
(***************************************************************************)
MaxRank == 3
MaxDim == 3
MaxMult == 2
MaxNumel == 8
MaxWrapRank == 2
MaxExt == 2

INVALID_ID == -1337

(***************************************************************************)
(* Sequences.                                                              *)
(***************************************************************************)
SeqsUpTo(S, n) == UNION {[1..k -> S] : k \in 0..n}

SeqsOfLen(S, n) == [1..n -> S]

RECURSIVE Prod(_)
Prod(s) == IF s = <<>> THEN 1 ELSE s[1] * Prod(Tail(s))

Max(a, b) == IF a >= b THEN a ELSE b

Reverse(s) == [i \in 1..Len(s) |-> s[Len(s) + 1 - i]]

\* s[:n] and s[n:] of Python for 0 <= n; a bound past the end is clamped.
Take(s, n) == SubSeq(s, 1, IF n > Len(s) THEN Len(s) ELSE n)

Drop(s, n) == SubSeq(s, (IF n > Len(s) THEN Len(s) ELSE n) + 1, Len(s))

\* s[:n] of Python, where a negative n counts from the end.
PyTake(s, n) == IF n >= 0 THEN Take(s, n)
                ELSE IF Len(s) + n <= 0 THEN <<>> ELSE Take(s, Len(s) + n)

\* s[n:] of Python, where a negative n counts from the end.
PyDrop(s, n) == IF n >= 0 THEN Drop(s, n)
                ELSE IF Len(s) + n <= 0 THEN s ELSE Drop(s, Len(s) + n)

Has(s, x) == \E i \in 1..Len(s) : s[i] = x

(***************************************************************************)
(* Padding mechanics.                                                      *)
(***************************************************************************)
RoundUpOff(x, m) == ((x + m) \div m) * m

RoundUp(x, m) == ((x + m - 1) \div m) * m

get_padded_shape_off(shape, multipliers) ==
    [d \in 1..Len(shape) |->
        IF d <= Len(multipliers) THEN RoundUpOff(shape[d], multipliers[d])
        ELSE shape[d]]

get_padded_shape(shape, multipliers) ==
    [d \in 1..Len(shape) |->
        IF d <= Len(multipliers) THEN RoundUp(shape[d], multipliers[d])
        ELSE shape[d]]

\* A variant that returns the list without reversing it: the width lands on
\* the low side of the mirrored dimension.
get_pad_low(shape, multipliers) ==
    LET n == Len(shape)
    IN [i \in 1..(2 * n) |->
          LET dim == (i - 1) \div 2
          IN IF (i - 1) % 2 = 0 /\ dim + 1 <= Len(multipliers)
             THEN RoundUp(shape[dim + 1], multipliers[dim + 1]) - shape[dim + 1]
             ELSE 0]

\* The pad tuple: entry 2*dim holds the width, entry 2*dim+1 is 0, and the
\* list is returned reversed (0-based positions of the source, 1-based here).
get_pad(shape, multipliers) ==
    LET n == Len(shape)
        pad == [i \in 1..(2 * n) |->
                  LET dim == (i - 1) \div 2
                  IN IF (i - 1) % 2 = 0 /\ dim + 1 <= Len(multipliers)
                     THEN RoundUp(shape[dim + 1], multipliers[dim + 1]) - shape[dim + 1]
                     ELSE 0]
    IN Reverse(pad)

\* F.pad(mode="constant") on a shape: the pair (pad[2i], pad[2i+1]) of the
\* tuple (0-based) is the (low, high) width of dimension n-1-i.
FPad(shape, pad) ==
    LET n == Len(shape)
    IN [d \in 1..n |-> shape[d] + pad[2 * (n - d) + 1] + pad[2 * (n - d) + 2]]

\* The sizes of tensor.shape; the is_padded tag Dimension attaches to each
\* size is not part of the state.
create_padded_dims(tensor, multipliers) == tensor

\* PaddedTensor.__new__ / __init__: shape is the wrapper's shape, tensor the
\* shape of the physical buffer self.tensor.
PaddedTensor(tensor, multipliers, orig_shape) ==
    LET shape == get_padded_shape(tensor, multipliers)
    IN [shape |-> shape,
        multipliers |-> multipliers,
        tensor |-> IF tensor # shape THEN FPad(tensor, get_pad(tensor, multipliers))
                   ELSE tensor,
        orig_shape |-> orig_shape,
        kind |-> "padded"]

\* orig_shape defaulted (None).
PaddedTensorDefault(tensor, multipliers) ==
    PaddedTensor(tensor, multipliers, create_padded_dims(tensor, multipliers))

Ones(n) == [i \in 1..n |-> 1]

Zeros(n) == [i \in 1..n |-> 0]

(***************************************************************************)
(* slice_nd and unpad.  A result is [err, shape]; err = "none" is a        *)
(* normal return.                                                          *)
(***************************************************************************)
Ok(shape) == [shape |-> shape, err |-> "none"]

Err(e) == [shape |-> <<>>, err |-> e]

\* The early return: every end index equals the extent.  all() stops at the
\* first unequal entry; an index past the rank raises IndexError.
RECURSIVE AllEqual(_, _, _)
AllEqual(shape, end_idxs, d) ==
    IF d > Len(end_idxs) THEN "equal"
    ELSE IF d > Len(shape) THEN "IndexError"
    ELSE IF shape[d] # end_idxs[d] THEN "differ"
    ELSE AllEqual(shape, end_idxs, d + 1)

SliceOk(shape, sliced) == [shape |-> shape, err |-> "none", sliced |-> sliced]

SliceErr(e) == [shape |-> <<>>, err |-> e, sliced |-> {}]

\* The loop of slice_nd from dimension d (1-based) on; sliced collects the
\* dimensions torch.ops.aten.slice was called on.
RECURSIVE SliceLoopNoCheck(_, _, _, _, _)
SliceLoopNoCheck(shape, start_idxs, end_idxs, d, sliced) ==
    IF d > Len(end_idxs) THEN SliceOk(shape, sliced)
    ELSE IF d > Len(shape) THEN SliceErr("IndexError")
    ELSE IF end_idxs[d] # shape[d]
         THEN IF ~(start_idxs[d] >= 0) THEN SliceErr("AssertionError")
              ELSE IF ~(end_idxs[d] <= shape[d]) THEN SliceErr("AssertionError")
              ELSE SliceLoopNoCheck([shape EXCEPT ![d] = end_idxs[d] - start_idxs[d]],
                                    start_idxs, end_idxs, d + 1, sliced \cup {d})
         ELSE SliceLoopNoCheck(shape, start_idxs, end_idxs, d + 1, sliced)

RECURSIVE SliceLoop(_, _, _, _, _)
SliceLoop(shape, start_idxs, end_idxs, d, sliced) ==
    IF d > Len(end_idxs) THEN SliceOk(shape, sliced)
    ELSE IF d > Len(shape) THEN SliceErr("IndexError")
    ELSE IF end_idxs[d] # shape[d]
         THEN IF ~(start_idxs[d] >= 0) THEN SliceErr("AssertionError")
              ELSE IF ~(end_idxs[d] <= shape[d]) THEN SliceErr("AssertionError")
              ELSE IF ~(start_idxs[d] < end_idxs[d]) THEN SliceErr("ValueError")
              ELSE SliceLoop([shape EXCEPT ![d] = end_idxs[d] - start_idxs[d]],
                             start_idxs, end_idxs, d + 1, sliced \cup {d})
         ELSE SliceLoop(shape, start_idxs, end_idxs, d + 1, sliced)

slice_nd(input, start_idxs, end_idxs) ==
    IF Len(start_idxs) # Len(end_idxs) THEN SliceErr("AssertionError")
    ELSE LET same == AllEqual(input, end_idxs, 1)
         IN IF same = "equal" THEN SliceOk(input, {})
            ELSE IF same = "IndexError" THEN SliceErr("IndexError")
            ELSE SliceLoop(input, start_idxs, end_idxs, 1, {})

unpad_unguarded(t) ==
    slice_nd(t.tensor, Zeros(Len(t.orig_shape)), t.orig_shape)

unpad(t) ==
    IF Has(t.orig_shape, INVALID_ID) THEN SliceErr("Exception")
    ELSE slice_nd(t.tensor, Zeros(Len(t.orig_shape)), t.orig_shape)

(***************************************************************************)
(* Buffers with their elements: [shape, data], data a function from the    *)
(* index tuples (0-based) to the elements.                                 *)
(***************************************************************************)
RECURSIVE Indices(_)
Indices(shape) ==
    IF Len(shape) = 0 THEN {<<>>}
    ELSE {<<i>> \o r : i \in 0..(shape[1] - 1), r \in Indices(Tail(shape))}

\* Row-major position of an index tuple.
RECURSIVE RowMajor(_, _)
RowMajor(idx, shape) ==
    IF Len(idx) = 0 THEN 0
    ELSE idx[1] * Prod(Tail(shape)) + RowMajor(Tail(idx), Tail(shape))

\* A buffer whose elements are pairwise distinct and differ from the
\* neutral element 0.
Labelled(shape) ==
    [shape |-> shape,
     kind |-> "tensor",
     data |-> [idx \in Indices(shape) |-> RowMajor(idx, shape) + 1]]

\* F.pad(input, pad, mode="constant", value): the element at idx comes from
\* idx - low when that lies in the input, and is value otherwise.
FPadData(input, pad, value) ==
    LET n == Len(input.shape)
        low == [d \in 1..n |-> pad[2 * (n - d) + 1]]
    IN [idx \in Indices(FPad(input.shape, pad)) |->
          LET src == [d \in 1..n |-> idx[d] - low[d]]
          IN IF \A d \in 1..n : 0 <= src[d] /\ src[d] < input.shape[d]
             THEN input.data[src]
             ELSE value]

\* PaddedTensor(tensor, multipliers) with the elements of self.tensor;
\* neutral_element is 0.
PaddedTensorData(input, multipliers) ==
    LET p == PaddedTensorDefault(input.shape, multipliers)
    IN [shape |-> p.shape,
        multipliers |-> p.multipliers,
        tensor |-> p.tensor,
        orig_shape |-> p.orig_shape,
        kind |-> "padded",
        data |-> IF input.shape # p.shape
                 THEN FPadData(input, get_pad(input.shape, multipliers), 0)
                 ELSE input.data]

\* self.unpad() with the elements: aten.slice(input, dim, start, end) keeps
\* the elements start..end-1 of each sliced dimension.
unpad_data(t) ==
    LET r == unpad(t)
        start_idxs == Zeros(Len(t.orig_shape))
    IN IF r.err # "none" THEN [shape |-> <<>>, err |-> r.err, data |-> <<>>]
       ELSE [shape |-> r.shape,
             err |-> "none",
             data |-> [idx \in Indices(r.shape) |->
                         t.data[[d \in 1..Len(idx) |->
                                   IF d \in r.sliced THEN idx[d] + start_idxs[d]
                                   ELSE idx[d]]]]]

(***************************************************************************)
(* Python list indexing and integer division.                              *)
(***************************************************************************)
\* s[i] of Python (0-based): a negative i counts from the end.
PyInRange(s, i) == -Len(s) <= i /\ i < Len(s)

PyAt(s, i) == IF i >= 0 THEN s[i + 1] ELSE s[Len(s) + i + 1]

\* a // b of Python (floor division), b # 0.
PyFloorDiv(a, b) ==
    IF b > 0 THEN a \div b ELSE (0 - a) \div (0 - b)

(***************************************************************************)
(* strip_common_suffix and strip_common_prefix.  A result is [err, a, b].  *)
(***************************************************************************)
Pair(a, b) == [a |-> a, b |-> b, err |-> "none"]

PairErr(e) == [a |-> <<>>, b |-> <<>>, err |-> e]

\* The while loop of strip_common_suffix: the idx it stops at, or -1 when an
\* index leaves the list (IndexError).
RECURSIVE SuffixLoop(_, _, _)
SuffixLoop(list1, list2, idx) ==
    LET i1 == Len(list1) - idx - 1
        i2 == Len(list2) - idx - 1
    IN IF ~PyInRange(list1, i1) \/ ~PyInRange(list2, i2) THEN -1
       ELSE IF PyAt(list1, i1) = PyAt(list2, i2) THEN SuffixLoop(list1, list2, idx + 1)
       ELSE idx

strip_common_suffix(list1, list2) ==
    IF Len(list1) = 0 \/ Len(list2) = 0 THEN Pair(list1, list2)
    ELSE LET idx == SuffixLoop(list1, list2, 0)
         IN IF idx = -1 THEN PairErr("IndexError")
            ELSE Pair(PyTake(list1, Len(list1) - idx), PyTake(list2, Len(list2) - idx))

\* The while loop of strip_common_prefix.
RECURSIVE PrefixLoop(_, _, _)
PrefixLoop(list1, list2, idx) ==
    IF idx >= Len(list1) \/ idx >= Len(list2) THEN -1
    ELSE IF list1[idx + 1] = list2[idx + 1] THEN PrefixLoop(list1, list2, idx + 1)
    ELSE idx

strip_common_prefix(list1, list2) ==
    IF Len(list1) = 0 \/ Len(list2) = 0 THEN Pair(list1, list2)
    ELSE LET idx == PrefixLoop(list1, list2, 0)
         IN IF idx = -1 THEN PairErr("IndexError")
            ELSE Pair(Drop(list1, idx), Drop(list2, idx))

(***************************************************************************)
(* Shape-inference rules.  infer_shapes returns [err, shapes]: the list of *)
(* output logical shapes, or the exception raised.                         *)
(***************************************************************************)
Shapes(l) == [err |-> "none", shapes |-> l]

Raise(e) == [err |-> e, shapes |-> <<>>]

\* pytree.tree_map_only(PaddedTensor, lambda x: x.orig_shape, args)
orig_in_shapes(a) ==
    LET leaf(x) == IF x.kind = "padded" THEN x.orig_shape ELSE x
    IN [i \in 1..Len(a) |->
          IF a[i].kind = "tensors"
          THEN [j \in 1..Len(a[i].v) |-> leaf(a[i].v[j])]
          ELSE leaf(a[i])]

\* A variant that stops one dimension early: it leaves the last admissible
\* dimension of every run unconsumed.
RECURSIVE ConsumeStrict(_, _, _, _)
ConsumeStrict(input_shape, output_dim, input_index, current_mapping) ==
    IF input_index >= Len(input_shape) \/ output_dim <= input_shape[input_index + 1]
    THEN [err |-> "none", input_index |-> input_index, group |-> current_mapping]
    ELSE IF input_shape[input_index + 1] = 0
    THEN [err |-> "ZeroDivisionError", input_index |-> input_index, group |-> <<>>]
    ELSE ConsumeStrict(input_shape,
                       PyFloorDiv(output_dim, input_shape[input_index + 1]),
                       input_index + 1,
                       Append(current_mapping, input_index))

\* ---- ViewOp ----
\* The inner while loop of find_mapping for one output dimension: the group
\* of (0-based) input indices it consumes and the input index it stops at.
RECURSIVE Consume(_, _, _, _)
Consume(input_shape, output_dim, input_index, current_mapping) ==
    IF input_index >= Len(input_shape) \/ output_dim < input_shape[input_index + 1]
    THEN [err |-> "none", input_index |-> input_index, group |-> current_mapping]
    ELSE IF input_shape[input_index + 1] = 0
    THEN [err |-> "ZeroDivisionError", input_index |-> input_index, group |-> <<>>]
    ELSE Consume(input_shape,
                 PyFloorDiv(output_dim, input_shape[input_index + 1]),
                 input_index + 1,
                 Append(current_mapping, input_index))

RECURSIVE FindMappingFrom(_, _, _, _, _)
FindMappingFrom(input_shape, output_shape, j, input_index, mapping) ==
    IF j > Len(output_shape) THEN [err |-> "none", mapping |-> mapping]
    ELSE LET c == Consume(input_shape, output_shape[j], input_index, <<>>)
         IN IF c.err # "none" THEN [err |-> c.err, mapping |-> <<>>]
            ELSE FindMappingFrom(input_shape, output_shape, j + 1, c.input_index,
                                 Append(mapping, c.group))

find_mapping(input_shape, output_shape) ==
    FindMappingFrom(input_shape, output_shape, 1, 0, <<>>)

\* The product of input_shape over one group, starting from Dimension(1).
RECURSIVE GroupProd(_, _)
GroupProd(input_shape, group) ==
    IF group = <<>> THEN 1
    ELSE input_shape[group[1] + 1] * GroupProd(input_shape, Tail(group))

apply_mapping(input_shape, mapping) ==
    IF \E g \in 1..Len(mapping) : \E k \in 1..Len(mapping[g]) :
            mapping[g][k] >= Len(input_shape)
    THEN Raise("IndexError")
    ELSE Shapes(<<[g \in 1..Len(mapping) |-> GroupProd(input_shape, mapping[g])]>>)

\* The (0-based) position of the first -1, or -1 when there is none.
RECURSIVE FirstMinus1(_, _)
FirstMinus1(s, i) ==
    IF i > Len(s) THEN -1 ELSE IF s[i] = -1 THEN i - 1 ELSE FirstMinus1(s, i + 1)

maybe_infer_minus_1_dims(input_shape, output_shape) ==
    LET input_shape_prod == Prod(input_shape)
        output_shape_prod == Prod(output_shape) * (-1)
        idx == FirstMinus1(output_shape, 1)
    IN IF idx = -1 THEN Ok(output_shape)
       ELSE IF output_shape_prod = 0 THEN Err("ZeroDivisionError")
       ELSE Ok([output_shape EXCEPT
                  ![idx + 1] = PyFloorDiv(input_shape_prod, output_shape_prod)])

\* The loop of maybe_insert_1_dims: idx counts the entries of input_shape used.
RECURSIVE Insert1Loop(_, _, _, _, _)
Insert1Loop(input_shape, output_shape, k, idx, acc) ==
    IF k > Len(output_shape) THEN Ok(acc)
    ELSE IF output_shape[k] = 1
    THEN Insert1Loop(input_shape, output_shape, k + 1, idx, Append(acc, 1))
    ELSE IF idx >= Len(input_shape) THEN Err("IndexError")
    ELSE Insert1Loop(input_shape, output_shape, k + 1, idx + 1,
                     Append(acc, input_shape[idx + 1]))

maybe_insert_1_dims(input_shape, output_shape) ==
    IF ~Has(output_shape, 1) THEN Ok(output_shape)
    ELSE Insert1Loop(input_shape, output_shape, 1, 0, <<>>)

Reconciled(orig_input_shape, orig_output_shape) ==
    Prod(orig_input_shape) = Prod(orig_output_shape) \/ Has(orig_output_shape, -1)

\* Lines 251-271: from the candidate orig_output_shape to the result.
ViewFinish(orig_input_shape, output_shape, candidate) ==
    LET m == maybe_infer_minus_1_dims(orig_input_shape, candidate)
    IN IF m.err # "none" THEN Raise(m.err)
       ELSE LET f == IF Reconciled(orig_input_shape, m.shape) THEN m
                     ELSE maybe_insert_1_dims(orig_input_shape, output_shape)
            IN IF f.err # "none" THEN Raise(f.err)
               ELSE IF ~Reconciled(orig_input_shape, f.shape)
               THEN Shapes(<<[i \in 1..Len(output_shape) |-> INVALID_ID]>>)
               ELSE Shapes(<<f.shape>>)

\* Lines 237-242: the candidate from the common prefix.
ViewPrefixCandidate(orig_input_shape, input_shape, output_shape) ==
    LET s == strip_common_prefix(input_shape, output_shape)
    IN IF s.err # "none" THEN Err(s.err)
       ELSE Ok(PyTake(orig_input_shape, Len(orig_input_shape) - Len(s.a)) \o s.b)

\* Lines 244-249: the candidate from the common suffix.
ViewSuffixCandidate(orig_input_shape, input_shape, output_shape) ==
    LET s == strip_common_suffix(input_shape, output_shape)
    IN IF s.err # "none" THEN Err(s.err)
       ELSE Ok(s.b \o Drop(orig_input_shape, Len(s.a)))

\* Lines 226-271 with the rejection of the case where both ends match.
ViewExpandExactlyOne(orig_input_shape, input_shape, output_shape) ==
    IF Len(input_shape) = 0 THEN Raise("IndexError")
    ELSE
    LET is_prefix_equal == input_shape[1] = output_shape[1]
        is_suffix_equal == input_shape[Len(input_shape)] = output_shape[Len(output_shape)]
    IN IF is_prefix_equal = is_suffix_equal THEN Raise("NotImplementedError")
       ELSE LET c == IF is_prefix_equal
                     THEN ViewPrefixCandidate(orig_input_shape, input_shape, output_shape)
                     ELSE ViewSuffixCandidate(orig_input_shape, input_shape, output_shape)
            IN IF c.err # "none" THEN Raise(c.err)
               ELSE ViewFinish(orig_input_shape, output_shape, c.shape)

\* Lines 226-271: the expanding case.
ViewExpand(orig_input_shape, input_shape, output_shape) ==
    IF Len(input_shape) = 0 THEN Raise("IndexError")
    ELSE
    LET is_prefix_equal == input_shape[1] = output_shape[1]
        is_suffix_equal == input_shape[Len(input_shape)] = output_shape[Len(output_shape)]
        is_no_equal == ~is_prefix_equal /\ ~is_suffix_equal
    IN IF is_no_equal THEN Raise("NotImplementedError")
       ELSE LET p == IF is_prefix_equal
                     THEN ViewPrefixCandidate(orig_input_shape, input_shape, output_shape)
                     ELSE Ok(<<>>)
            IN IF p.err # "none" THEN Raise(p.err)
               ELSE LET c == IF is_suffix_equal
                             THEN ViewSuffixCandidate(orig_input_shape, input_shape,
                                                      output_shape)
                             ELSE p
                    IN IF c.err # "none" THEN Raise(c.err)
                       ELSE ViewFinish(orig_input_shape, output_shape, c.shape)

\* Lines 216-224: the collapsing case.
ViewCollapse(orig_input_shape, input_shape, output_shape) ==
    LET m == find_mapping(input_shape, output_shape)
    IN IF m.err # "none" THEN Raise(m.err)
       ELSE apply_mapping(orig_input_shape, m.mapping)

ViewOp_infer_shapes(input_shapes, a) ==
    LET orig_input_shape == input_shapes[1]
        input_shape == a[1].shape
        output_shape == a[2].v
    IN IF Len(input_shape) = Len(output_shape) THEN Shapes(<<output_shape>>)
       ELSE IF Len(input_shape) > Len(output_shape)
       THEN ViewCollapse(orig_input_shape, input_shape, output_shape)
       ELSE ViewExpand(orig_input_shape, input_shape, output_shape)

\* ---- OnesLikeOp, PolarOp, ElementwiseUnaryOp, DetachOp, IndexPutOp, NoOp ----
SameShape_infer_shapes(input_shapes, a) == Shapes(<<input_shapes[1]>>)

\* ---- ElementwiseBinaryOp ----
BinaryOperandShape(x) == IF x.kind = "padded" THEN x.orig_shape ELSE <<1>>

ElementwiseBinaryOp_infer_shapes(input_shapes, a) ==
    LET lhs_shape == BinaryOperandShape(a[1])
        rhs_shape == BinaryOperandShape(a[2])
        n == Max(Len(lhs_shape), Len(rhs_shape))
        \* new_shape[idx], idx counted from the trailing dimension (0-based)
        dim(shape, idx) == IF idx < Len(shape) THEN shape[Len(shape) - idx] ELSE 1
    IN Shapes(<<[k \in 1..n |-> Max(dim(lhs_shape, n - k), dim(rhs_shape, n - k))]>>)

\* ---- AddMmOp, MatmulOp ----
\* [args[0].orig_shape[0], args[1].orig_shape[1]]
RowsCols(x, y) ==
    IF x.kind # "padded" \/ y.kind # "padded" THEN Raise("AttributeError")
    ELSE IF Len(x.orig_shape) < 1 \/ Len(y.orig_shape) < 2 THEN Raise("IndexError")
    ELSE Shapes(<<<<x.orig_shape[1], y.orig_shape[2]>>>>)

AddMmOp_infer_shapes(input_shapes, a) == RowsCols(a[1], a[2])

MatmulOp_infer_shapes(input_shapes, a) == RowsCols(a[1], a[2])

BmmOp_infer_shapes(input_shapes, a) ==
    IF a[1].kind # "padded" \/ a[2].kind # "padded" THEN Raise("AttributeError")
    ELSE IF Len(a[1].orig_shape) # 3 \/ Len(a[2].orig_shape) # 3 THEN Raise("ValueError")
    ELSE LET b1 == a[1].orig_shape[1]
             n1 == a[1].orig_shape[2]
             m1 == a[1].orig_shape[3]
             b2 == a[2].orig_shape[1]
             m2 == a[2].orig_shape[2]
             p2 == a[2].orig_shape[3]
         IN IF b1 # b2 THEN Raise("AssertionError")
            ELSE IF m1 # m2 THEN Raise("AssertionError")
            ELSE Shapes(<<<<b1, n1, p2>>>>)

\* ---- IndexOp ----
\* The loop over dims = args[1]: the input shape with the indexed dimensions
\* replaced.  None is [kind |-> "none"].
RECURSIVE IndexLoop(_, _, _)
IndexLoop(input_shape_mod, dims, k) ==
    IF k > Len(dims) THEN Shapes(<<input_shape_mod>>)
    ELSE IF dims[k].kind = "none" THEN IndexLoop(input_shape_mod, dims, k + 1)
    ELSE IF dims[k].kind = "tensor" THEN Raise("AttributeError")
    ELSE IF dims[k].kind # "padded" THEN Raise("NotImplementedError")
    ELSE IF Len(dims[k].orig_shape) = 0 \/ k > Len(input_shape_mod)
    THEN Raise("IndexError")
    ELSE IndexLoop([input_shape_mod EXCEPT ![k] = dims[k].orig_shape[1]], dims, k + 1)

IndexOp_infer_shapes(input_shapes, a) == IndexLoop(input_shapes[1], a[2].v, 1)

\* ---- StackOp ----
StackOp_infer_shapes(input_shapes, a) ==
    LET input == a[1].v
    IN IF Len(input) = 0 THEN Raise("IndexError")
       ELSE IF input[1].kind # "padded" THEN Raise("AttributeError")
       ELSE LET first == input[1].orig_shape
                dim == IF a[2].v < 0 THEN a[2].v + Len(first) + 1 ELSE a[2].v
            IN Shapes(<<PyTake(first, dim) \o <<Len(input)>> \o PyDrop(first, dim)>>)

(***************************************************************************)
(* The registry: operation name -> rule class.                             *)
(***************************************************************************)
PADDED_OP_TABLE ==
    [op \in {"ones_like"} |-> "OnesLikeOp"]
    @@ [op \in {"view", "_unsafe_view", "view_as_real"} |-> "ViewOp"]
    @@ [op \in {"unsqueeze"} |-> "UnsqueezeOp"]
    @@ [op \in {"polar"} |-> "PolarOp"]
    @@ [op \in {"transpose"} |-> "TransposeOp"]
    @@ [op \in {"expand"} |-> "ExpandOp"]
    @@ [op \in {"clone", "where", "tril", "sin", "rsqrt", "silu"} |-> "ElementwiseUnaryOp"]
    @@ [op \in {"add", "sub", "mul", "div"} |-> "ElementwiseBinaryOp"]
    @@ [op \in {"addmm"} |-> "AddMmOp"]
    @@ [op \in {"mm"} |-> "MatmulOp"]
    @@ [op \in {"bmm"} |-> "BmmOp"]
    @@ [op \in {"_scaled_dot_product_flash_attention",
                "_scaled_dot_product_efficient_attention"} |->
          "ScaledDotProductAttentionOp"]
    @@ [op \in {"index"} |-> "IndexOp"]
    @@ [op \in {"select"} |-> "SelectOp"]
    @@ [op \in {"index_put_"} |-> "IndexPutOp"]
    @@ [op \in {"split_with_sizes"} |-> "SplitWithSizesOp"]
    @@ [op \in {"stack"} |-> "StackOp"]
    @@ [op \in {"detach"} |-> "DetachOp"]
    @@ [op \in {"embedding"} |-> "EmbeddingOp"]
    @@ [op \in {"slice", "unbind", "_to_copy", "copy_", "mean", "t", "sum", "pow"} |->
          "NoOp"]

\* op.infer_shapes(orig_in_shapes, args, kwargs) for the rules modelled here.
infer_shapes(op, input_shapes, a) ==
    CASE op = "ViewOp" -> ViewOp_infer_shapes(input_shapes, a)
      [] op \in {"OnesLikeOp", "PolarOp", "ElementwiseUnaryOp", "DetachOp",
                 "IndexPutOp", "NoOp"} -> SameShape_infer_shapes(input_shapes, a)
      [] op = "ElementwiseBinaryOp" -> ElementwiseBinaryOp_infer_shapes(input_shapes, a)
      [] op = "AddMmOp" -> AddMmOp_infer_shapes(input_shapes, a)
      [] op = "MatmulOp" -> MatmulOp_infer_shapes(input_shapes, a)
      [] op = "BmmOp" -> BmmOp_infer_shapes(input_shapes, a)
      [] op = "IndexOp" -> IndexOp_infer_shapes(input_shapes, a)
      [] op = "StackOp" -> StackOp_infer_shapes(input_shapes, a)
      [] OTHER -> Raise("NotModelled")

(***************************************************************************)
(* The numeric kernels, on shapes: the call of func on the tensor_args.    *)
(* A kernel returns the shapes of its outputs or raises RuntimeError.      *)
(***************************************************************************)
\* Conventional broadcasting of two shapes, aligned from the trailing end.
BroadcastOk(x, y) ==
    LET n == Max(Len(x), Len(y))
        dim(shape, idx) == IF idx < Len(shape) THEN shape[Len(shape) - idx] ELSE 1
    IN \A idx \in 0..(n - 1) :
          dim(x, idx) = dim(y, idx) \/ dim(x, idx) = 1 \/ dim(y, idx) = 1

BroadcastShape(x, y) ==
    LET n == Max(Len(x), Len(y))
        dim(shape, idx) == IF idx < Len(shape) THEN shape[Len(shape) - idx] ELSE 1
    IN [k \in 1..n |-> IF dim(x, n - k) = 1 THEN dim(y, n - k) ELSE dim(x, n - k)]

NumMinus1(o) == Cardinality({i \in 1..Len(o) : o[i] = -1})

ViewKernel(p, o) ==
    LET known == Prod([i \in 1..Len(o) |-> IF o[i] = -1 THEN 1 ELSE o[i]])
    IN IF (\E i \in 1..Len(o) : o[i] < -1) \/ NumMinus1(o) > 1 THEN Raise("RuntimeError")
       ELSE IF NumMinus1(o) = 0
       THEN IF Prod(p) = known THEN Shapes(<<o>>) ELSE Raise("RuntimeError")
       ELSE IF known = 0 \/ Prod(p) % known # 0 THEN Raise("RuntimeError")
       ELSE Shapes(<<[i \in 1..Len(o) |-> IF o[i] = -1 THEN Prod(p) \div known ELSE o[i]]>>)

MmKernel(x, y) ==
    IF Len(x) = 2 /\ Len(y) = 2 /\ x[2] = y[1] THEN Shapes(<<<<x[1], y[2]>>>>)
    ELSE Raise("RuntimeError")

BmmKernel(x, y) ==
    IF Len(x) = 3 /\ Len(y) = 3 /\ x[1] = y[1] /\ x[3] = y[2]
    THEN Shapes(<<<<x[1], x[2], y[3]>>>>)
    ELSE Raise("RuntimeError")

\* stack of the buffers in list l along dim.
StackKernel(l, dim) ==
    IF Len(l) = 0 \/ \E i \in 1..Len(l) : l[i].shape # l[1].shape
    THEN Raise("RuntimeError")
    ELSE LET first == l[1].shape
             d == IF dim < 0 THEN dim + Len(first) + 1 ELSE dim
         IN IF d < 0 \/ d > Len(first) THEN Raise("RuntimeError")
            ELSE Shapes(<<Take(first, d) \o <<Len(l)>> \o Drop(first, d)>>)

\* index of a buffer of shape x by the list dims of None and 1-D index
\* buffers: the indexed dimensions are replaced by the broadcast index
\* length, in place when they are adjacent and in front otherwise.
IndexKernel(x, dims) ==
    LET I == {i \in 1..Len(dims) : dims[i].kind # "none"}
        lens == {dims[i].shape[1] : i \in {j \in I : Len(dims[j].shape) = 1}}
        k == IF lens \ {1} = {} THEN 1 ELSE CHOOSE n \in lens \ {1} : TRUE
        lo == CHOOSE i \in I : \A j \in I : i <= j
        hi == CHOOSE i \in I : \A j \in I : i >= j
        rest == [j \in 1..(Len(x) - Cardinality(I)) |->
                    x[CHOOSE i \in (1..Len(x)) \ I :
                         Cardinality({n \in (1..i) \ I : TRUE}) = j]]
    IN IF I = {} \/ Len(dims) > Len(x) THEN Raise("RuntimeError")
       ELSE IF \E i \in I : Len(dims[i].shape) # 1 THEN Raise("RuntimeError")
       ELSE IF Cardinality(lens \ {1}) > 1 THEN Raise("RuntimeError")
       ELSE IF hi - lo + 1 = Cardinality(I)
       THEN Shapes(<<Take(x, lo - 1) \o <<k>> \o Drop(x, hi)>>)
       ELSE Shapes(<<<<k>> \o rest>>)

\* The shape a binary kernel sees for an operand: a Python scalar is rank 0.
KernelOperand(x) == IF x.kind = "tensor" THEN x.shape ELSE <<>>

Kernel(f, t) ==
    CASE f \in {"view", "_unsafe_view"} -> ViewKernel(t[1].shape, t[2].v)
      [] f \in {"clone", "sin", "rsqrt", "silu", "detach", "_to_copy", "ones_like"} ->
            Shapes(<<t[1].shape>>)
      [] f = "t" -> IF Len(t[1].shape) <= 2 THEN Shapes(<<Reverse(t[1].shape)>>)
                    ELSE Raise("RuntimeError")
      [] f = "sum" -> Shapes(<<<<>>>>)
      [] f \in {"add", "sub", "mul", "div"} ->
            IF BroadcastOk(KernelOperand(t[1]), KernelOperand(t[2]))
            THEN Shapes(<<BroadcastShape(KernelOperand(t[1]), KernelOperand(t[2]))>>)
            ELSE Raise("RuntimeError")
      [] f = "mm" -> MmKernel(t[1].shape, t[2].shape)
      [] f = "addmm" ->
            LET r == MmKernel(t[2].shape, t[3].shape)
            IN IF r.err # "none" THEN r
               ELSE IF Len(t[1].shape) <= 2 /\ BroadcastOk(t[1].shape, r.shapes[1])
                       /\ BroadcastShape(t[1].shape, r.shapes[1]) = r.shapes[1]
               THEN r ELSE Raise("RuntimeError")
      [] f = "bmm" -> BmmKernel(t[1].shape, t[2].shape)
      [] f = "stack" -> StackKernel(t[1].v, t[2].v)
      [] f = "index" -> IndexKernel(t[1].shape, t[2].v)
      [] OTHER -> Raise("RuntimeError")

(***************************************************************************)
(* Argument and result conversion.                                         *)
(***************************************************************************)
RawTensor(shape) == [shape |-> shape, kind |-> "tensor"]

IntList(v) == [kind |-> "list", v |-> v]

Scalar(v) == [kind |-> "scalar", v |-> v]

convert_tensor_args(a) ==
    [i \in 1..Len(a) |->
        IF a[i].kind = "tensor"
        THEN PaddedTensorDefault(a[i].shape, Ones(Len(a[i].shape)))
        ELSE a[i]]

\* A list or tuple argument of tensors (and None).
TensorList(v) == [kind |-> "tensors", v |-> v]

\* pytree.tree_map_only(PaddedTensor, lambda x: x.tensor, ...) reaches the
\* entries of a list argument.
get_tensors_from_padded(a) ==
    LET leaf(x) == IF x.kind = "padded" THEN RawTensor(x.tensor) ELSE x
    IN [i \in 1..Len(a) |->
          IF a[i].kind = "tensors"
          THEN TensorList([j \in 1..Len(a[i].v) |-> leaf(a[i].v[j])])
          ELSE leaf(a[i])]

\* A result is a sequence of items: a leaf (tensor, PaddedTensor, scalar) or
\* a tuple of leaves.
Tuple(v) == [kind |-> "tuple", v |-> v]

\* pytree.tree_flatten: the leaves in order, and the structure (-1 for a
\* leaf, the length for a tuple).
RECURSIVE tree_flatten(_)
tree_flatten(o) ==
    IF Len(o) = 0 THEN <<>>
    ELSE (IF o[1].kind = "tuple" THEN o[1].v ELSE <<o[1]>>) \o tree_flatten(Tail(o))

TreeSpec(o) == [i \in 1..Len(o) |-> IF o[i].kind = "tuple" THEN Len(o[i].v) ELSE -1]

RECURSIVE LeavesBefore(_, _)
LeavesBefore(spec, i) ==
    IF i <= 1 THEN 0
    ELSE LeavesBefore(spec, i - 1) + (IF spec[i - 1] = -1 THEN 1 ELSE spec[i - 1])

\* pytree.tree_unflatten
tree_unflatten(flat, spec) ==
    [i \in 1..Len(spec) |->
        LET off == LeavesBefore(spec, i)
        IN IF spec[i] = -1 THEN flat[off + 1]
           ELSE Tuple(SubSeq(flat, off + 1, off + spec[i]))]

\* A variant that wraps every tensor leaf, one without an inferred shape
\* with its own shape.
convert_tensor_results_all(o, shapes) ==
    LET out_flat == tree_flatten(o)
    IN tree_unflatten(
          [idx \in 1..Len(out_flat) |->
              IF out_flat[idx].kind = "tensor"
              THEN PaddedTensor(out_flat[idx].shape, Ones(Len(out_flat[idx].shape)),
                                IF idx <= Len(shapes) THEN shapes[idx]
                                ELSE out_flat[idx].shape)
              ELSE out_flat[idx]],
          TreeSpec(o))

convert_tensor_results(o, shapes) ==
    LET out_flat == tree_flatten(o)
    IN tree_unflatten(
          [idx \in 1..Len(out_flat) |->
              IF out_flat[idx].kind = "tensor" /\ idx <= Len(shapes)
              THEN PaddedTensor(out_flat[idx].shape, Ones(Len(out_flat[idx].shape)),
                                shapes[idx])
              ELSE out_flat[idx]],
          TreeSpec(o))

(***************************************************************************)
(* The inputs the model draws.                                             *)
(***************************************************************************)
\* Buffers handed to the constructor with multipliers: positive extents,
\* and at most MaxNumel elements once padded.
WrapInputs ==
    UNION {{[multipliers |-> m, tensor |-> s] :
               m \in {m \in SeqsOfLen(1..MaxMult, Len(s)) :
                         Prod(get_padded_shape(s, m)) <= MaxNumel}} :
           s \in {s \in SeqsUpTo(1..MaxDim, MaxRank) : Prod(s) <= MaxNumel}}

\* Buffers wrapped with an explicit orig_shape of the buffer's rank.
ExplicitInputs ==
    {w \in [tensor : SeqsUpTo(0..MaxExt, MaxWrapRank),
            orig_shape : SeqsUpTo({INVALID_ID, -1} \cup 0..MaxExt, MaxWrapRank)] :
        Len(w.tensor) = Len(w.orig_shape)}

AbsProd(o) == Prod([i \in 1..Len(o) |-> IF o[i] < 0 THEN 0 - o[i] ELSE o[i]])

\* Requested view shapes; -1 is the wildcard.
ViewTargets ==
    {o \in SeqsUpTo({-1} \cup 1..MaxNumel, MaxRank) : AbsProd(o) <= MaxNumel}

\* The requests the view kernel accepts for a buffer of shape p.
ViewRequests(p) == {o \in ViewTargets : ViewKernel(p, o).err = "none"}

\* One operation of each shape-preserving rule class: ElementwiseUnaryOp,
\* DetachOp and NoOp.
UnaryOps == {"clone", "detach", "sum"}

BinaryOps == {"add", "mul"}

\* Operands of the binary and matmul rules.
SmallShapes(lo, rank) == SeqsOfLen(lo..MaxExt, rank)

SmallWrapped(lo, rank) ==
    {PaddedTensorDefault(s, m) : s \in SmallShapes(lo, rank),
                                 m \in SeqsOfLen(1..MaxMult, rank)}

(***************************************************************************)
(* State.                                                                  *)
(***************************************************************************)
NoValue == [kind |-> "none"]

NoError == [err |-> "none", at |-> "none"]

NoRet == [err |-> "unset"]

Rest == {"idle", "done", "raised"}

Init ==
    /\ self = NoValue
    /\ pc = "idle"
    /\ func = ""
    /\ args = <<>>
    /\ orig_out_shapes = <<>>
    /\ out = <<>>
    /\ raised = NoError
    /\ kernel_calls = 0
    /\ ret = NoRet

(***************************************************************************)
(* Construction and unpad.  A behaviour follows one value: it is made by   *)
(* the constructor, or by an activation on operands drawn here, and is     *)
(* then handed to the shape-preserving operations and to unpad.            *)
(***************************************************************************)
Constructed(v, a) ==
    /\ self' = v
    /\ pc' = "idle"
    /\ func' = "PaddedTensor"
    /\ args' = a
    /\ orig_out_shapes' = <<>>
    /\ out' = <<>>
    /\ raised' = NoError
    /\ kernel_calls' = 0
    /\ ret' = NoRet

\* PaddedTensor(tensor, multipliers)
Wrap ==
    /\ self = NoValue
    /\ \E w \in WrapInputs :
        Constructed(PaddedTensorDefault(w.tensor, w.multipliers),
                    <<RawTensor(w.tensor), IntList(w.multipliers)>>)

\* PaddedTensor(tensor, [1] * rank, orig_shape)
WrapWith ==
    /\ self = NoValue
    /\ \E w \in ExplicitInputs :
        Constructed(PaddedTensor(w.tensor, Ones(Len(w.tensor)), w.orig_shape),
                    <<RawTensor(w.tensor), IntList(Ones(Len(w.tensor))),
                      IntList(w.orig_shape)>>)

\* self.unpad()
Unpad ==
    /\ pc \in Rest
    /\ self.kind = "padded"
    /\ ret' = unpad(self)
    /\ UNCHANGED <<self, pc, func, args, orig_out_shapes, out, raised, kernel_calls>>

(***************************************************************************)
(* One activation of __torch_dispatch__.                                   *)
(***************************************************************************)
\* self becomes the PaddedTensor the operation is called on.
Start(f, a, v) ==
    /\ pc \in Rest
    /\ self' = v
    /\ func' = f
    /\ args' = a
    /\ pc' = "lookup"
    /\ orig_out_shapes' = <<>>
    /\ out' = <<>>
    /\ raised' = NoError
    /\ kernel_calls' = 0
    /\ ret' = NoRet

CallView ==
    /\ self = NoValue
    /\ \E w \in WrapInputs :
        LET x == PaddedTensorDefault(w.tensor, w.multipliers)
        IN \E o \in ViewRequests(x.tensor) : Start("view", <<x, IntList(o)>>, x)

\* Start clears ret, so a call made after unpad leads to the same state as
\* the call made before it; only the latter is enumerated.
CallUnary ==
    /\ self.kind = "padded"
    /\ ret = NoRet
    /\ \E f \in UnaryOps : Start(f, <<self>>, self)

\* An operation that has no entry in the table.
CallUnknown ==
    /\ self.kind = "padded"
    /\ ret = NoRet
    /\ Start("relu", <<self>>, self)

CallBmm ==
    /\ self = NoValue
    /\ \E x \in SmallWrapped(1, 3), y \in SmallShapes(1, 3) :
        Start("bmm", <<x, RawTensor(y)>>, x)

CallMm ==
    /\ self = NoValue
    /\ \E x \in SmallWrapped(1, 2), y \in SmallShapes(1, 2) :
        Start("mm", <<x, RawTensor(y)>>, x)

CallAddmm ==
    /\ self = NoValue
    /\ \E b \in SmallShapes(1, 1) \cup SmallShapes(1, 2),
       x \in SmallWrapped(1, 2), y \in SmallShapes(1, 2) :
        Start("addmm", <<RawTensor(b), x, RawTensor(y)>>, x)

CallBinary ==
    /\ self = NoValue
    /\ \E f \in BinaryOps,
       x \in UNION {SmallWrapped(0, r) : r \in 0..MaxWrapRank},
       y \in {Scalar(2)} \cup {RawTensor(s) : s \in SeqsUpTo(0..MaxExt, MaxWrapRank)} :
        Start(f, <<x, y>>, x)

RaiseAt(e, where) ==
    /\ raised' = [err |-> e, at |-> where]
    /\ pc' = "raised"

\* Lines 784-788.  A miss that fell back to the kernel instead of raising.
LookupFallback ==
    /\ pc = "lookup"
    /\ pc' = IF func \in DOMAIN PADDED_OP_TABLE THEN "convert" ELSE "execute"
    /\ UNCHANGED <<self, func, args, orig_out_shapes, out, raised, kernel_calls, ret>>

Lookup ==
    /\ pc = "lookup"
    /\ IF func \notin DOMAIN PADDED_OP_TABLE
       THEN RaiseAt("NotImplementedError", "lookup")
       ELSE pc' = "convert" /\ UNCHANGED raised
    /\ UNCHANGED <<self, func, args, orig_out_shapes, out, kernel_calls, ret>>

\* Line 791.
ConvertArgs ==
    /\ pc = "convert"
    /\ args' = convert_tensor_args(args)
    /\ pc' = "infer"
    /\ UNCHANGED <<self, func, orig_out_shapes, out, raised, kernel_calls, ret>>

\* Lines 794-797.
Infer ==
    /\ pc = "infer"
    /\ LET r == infer_shapes(PADDED_OP_TABLE[func], orig_in_shapes(args), args)
       IN IF r.err # "none"
          THEN RaiseAt(r.err, "infer") /\ UNCHANGED orig_out_shapes
          ELSE orig_out_shapes' = r.shapes /\ pc' = "execute" /\ UNCHANGED raised
    /\ UNCHANGED <<self, func, args, out, kernel_calls, ret>>

\* Lines 799-802.
Execute ==
    /\ pc = "execute"
    /\ kernel_calls' = kernel_calls + 1
    /\ LET r == Kernel(func, get_tensors_from_padded(args))
       IN IF r.err # "none"
          THEN RaiseAt(r.err, "execute") /\ UNCHANGED out
          ELSE /\ out' = [i \in 1..Len(r.shapes) |-> RawTensor(r.shapes[i])]
               /\ pc' = "wrap"
               /\ UNCHANGED raised
    /\ UNCHANGED <<self, func, args, orig_out_shapes, ret>>

\* Lines 807-809; the caller keeps the first result.
WrapResults ==
    /\ pc = "wrap"
    /\ out' = convert_tensor_results(out, orig_out_shapes)
    /\ self' = out'[1]
    /\ pc' = "done"
    /\ UNCHANGED <<func, args, orig_out_shapes, raised, kernel_calls, ret>>

Dispatch == Lookup \/ ConvertArgs \/ Infer \/ Execute \/ WrapResults

Next ==
    \/ Wrap
    \/ WrapWith
    \/ Unpad
    \/ CallView
    \/ CallUnary
    \/ CallUnknown
    \/ CallBmm
    \/ Dispatch

Spec == Init /\ [][Next]_vars

NextMath ==
    \/ CallBinary
    \/ CallMm
    \/ CallAddmm
    \/ CallBmm
    \/ Dispatch

SpecMath == Init /\ [][NextMath]_vars

(***************************************************************************)
(* Activations whose operands sit inside a list argument.                  *)
(***************************************************************************)
\* 1-D operands of stack and index buffers of index: wrapped or raw.
ListEntries ==
    SmallWrapped(1, 1) \cup {RawTensor(sh) : sh \in SmallShapes(1, 1)}

FirstPadded(l) == l[CHOOSE i \in 1..Len(l) : l[i].kind = "padded"
                                              /\ \A j \in 1..(i - 1) : l[j].kind # "padded"]

\* stack([...], dim): dispatched when some entry is a PaddedTensor.
CallStack ==
    /\ self = NoValue
    /\ \E n \in 1..2 :
         \E l \in SeqsOfLen(ListEntries, n), dim \in {-1, 0, 1} :
            /\ \E i \in 1..n : l[i].kind = "padded"
            /\ Start("stack", <<TensorList(l), Scalar(dim)>>, FirstPadded(l))

\* index(x, [...]) on a PaddedTensor x.
CallIndex ==
    /\ self = NoValue
    /\ \E x \in SmallWrapped(1, 2), n \in 1..2 :
         \E l \in SeqsOfLen(ListEntries \cup {NoValue}, n) :
            Start("index", <<x, TensorList(l)>>, x)

NextNested ==
    \/ CallStack
    \/ CallIndex
    \/ CallBmm
    \/ Dispatch

SpecNested == Init /\ [][NextNested]_vars

(***************************************************************************)
(* convert_tensor_results applied to drawn kernel results.                 *)
(***************************************************************************)
MaxLeaves == 3

\* Leaves of a kernel result: tensors and a non-tensor.
ResultLeaves == {RawTensor(sh) : sh \in SmallShapes(1, 1)} \cup {Scalar(2)}

\* Results with exactly n leaves.
RECURSIVE ResultsOf(_)
ResultsOf(n) ==
    IF n = 0 THEN {<<>>}
    ELSE UNION {{<<item>> \o t :
                    item \in (IF k = 1 THEN ResultLeaves ELSE {})
                              \cup {Tuple(l) : l \in SeqsOfLen(ResultLeaves, k)},
                    t \in ResultsOf(n - k)} :
                k \in 1..n}

\* n inferred shapes, the i-th of them [i].
InferredShapes(n) == [i \in 1..n |-> <<i>>]

ConvertResults ==
    /\ pc = "idle"
    /\ \E n \in 0..MaxLeaves, m \in 0..MaxLeaves :
         \E o \in ResultsOf(n) :
            /\ func' = "convert_tensor_results"
            /\ args' = o
            /\ orig_out_shapes' = InferredShapes(m)
            /\ out' = convert_tensor_results(o, InferredShapes(m))
            /\ pc' = "done"
            /\ self' = NoValue
            /\ raised' = NoError
            /\ kernel_calls' = 0
            /\ ret' = NoRet

NextResults == ConvertResults

SpecResults == Init /\ [][NextResults]_vars

(***************************************************************************)
(* Wrapping and unpadding a buffer, elements included.                     *)
(***************************************************************************)
WrapData ==
    /\ self = NoValue
    /\ pc = "idle"
    /\ \E w \in WrapInputs :
         /\ self' = PaddedTensorData(Labelled(w.tensor), w.multipliers)
         /\ args' = <<Labelled(w.tensor), IntList(w.multipliers)>>
         /\ func' = "PaddedTensor"
         /\ UNCHANGED <<pc, orig_out_shapes, out, raised, kernel_calls, ret>>

UnpadData ==
    /\ self.kind = "padded"
    /\ pc = "idle"
    /\ ret' = unpad_data(self)
    /\ UNCHANGED <<self, pc, func, args, orig_out_shapes, out, raised, kernel_calls>>

NextRoundTrip ==
    \/ WrapData
    \/ UnpadData

SpecRoundTrip == Init /\ [][NextRoundTrip]_vars

(***************************************************************************)
(* strip_common_suffix, strip_common_prefix and __torch_function__ applied *)
(* to drawn inputs.                                                        *)
(***************************************************************************)
StripInputs == SeqsUpTo(1..MaxExt, MaxRank)

Called(f, a, r) ==
    /\ func' = f
    /\ args' = a
    /\ ret' = r
    /\ pc' = IF r.err = "none" THEN "done" ELSE "raised"
    /\ raised' = IF r.err = "none" THEN NoError ELSE [err |-> r.err, at |-> f]
    /\ self' = NoValue
    /\ orig_out_shapes' = <<>>
    /\ out' = <<>>
    /\ kernel_calls' = 0

StripSuffix ==
    /\ pc \in Rest
    /\ \E a \in StripInputs, b \in StripInputs :
        Called("strip_common_suffix", <<IntList(a), IntList(b)>>,
               strip_common_suffix(a, b))

StripPrefix ==
    /\ pc \in Rest
    /\ \E a \in StripInputs, b \in StripInputs :
        Called("strip_common_prefix", <<IntList(a), IntList(b)>>,
               strip_common_prefix(a, b))

\* F.linear on buffers: (..., in) x (out, in) -> (..., out).
LinearKernel(x, w) ==
    IF Len(x) < 1 \/ Len(w) # 2 THEN Raise("RuntimeError")
    ELSE IF x[Len(x)] # w[2] THEN Raise("RuntimeError")
    ELSE Shapes(<<Take(x, Len(x) - 1) \o <<w[1]>>>>)

\* __torch_function__ for func.__name__ == "linear": func runs first, then the
\* logical shape of its result is overwritten.  The result of func is taken to
\* be the PaddedTensor around the kernel's buffer.
Linear ==
    /\ pc \in Rest
    /\ \E x \in SmallWrapped(1, 1) \cup SmallWrapped(1, 2), w \in SmallShapes(1, 2) :
        LET k == LinearKernel(x.tensor, w)
            s == strip_common_suffix(x.orig_shape, w)
            e == IF k.err # "none" THEN k.err ELSE s.err
        IN /\ func' = "linear"
           /\ args' = <<x, RawTensor(w)>>
           /\ kernel_calls' = 1
           /\ orig_out_shapes' = <<>>
           /\ ret' = NoRet
           /\ IF e # "none"
              THEN /\ raised' = [err |-> e, at |-> "linear"]
                   /\ pc' = "raised"
                   /\ self' = x
                   /\ out' = <<>>
              ELSE /\ raised' = NoError
                   /\ pc' = "done"
                   /\ self' = PaddedTensor(k.shapes[1], Ones(Len(k.shapes[1])),
                                           s.a \o s.b)
                   /\ out' = <<self'>>

NextStrip ==
    \/ StripSuffix
    \/ StripPrefix
    \/ Linear

SpecStrip == Init /\ [][NextStrip]_vars

(***************************************************************************)
(* Properties.                                                             *)
(***************************************************************************)
\* The activation has left the Infer step.
PastInfer == pc \in {"execute", "wrap", "done", "raised"}

AllSentinel(shape) == \A i \in 1..Len(shape) : shape[i] = INVALID_ID

AllPositive(shape) == \A i \in 1..Len(shape) : shape[i] > 0

\* C1: a PaddedTensor made by PaddedTensor(buffer, multipliers), orig_shape
\* defaulted, keeps the buffer's shape as its logical shape, and in every
\* dimension d the physical extent is a multiple of multipliers[d] with
\* 0 <= physical - logical < multipliers[d].
C1_PaddingInvariant ==
    (pc = "idle" /\ func = "PaddedTensor" /\ Len(args) = 2) =>
        LET t == args[1].shape
            m == args[2].v
        IN /\ self.orig_shape = t
           /\ self.shape = self.tensor
           /\ Len(self.tensor) = Len(t)
           /\ \A d \in 1..Len(t) :
                 /\ 0 <= self.tensor[d] - self.orig_shape[d]
                 /\ self.tensor[d] - self.orig_shape[d] < m[d]
                 /\ self.tensor[d] % m[d] = 0

\* A wrapped buffer whose second dimension was padded from 3 to 4.
C1_Witness ==
    /\ pc = "idle" /\ func = "PaddedTensor" /\ Len(args) = 2
    /\ self.orig_shape = <<2, 3>>
    /\ self.tensor = <<2, 4>>
    /\ self.multipliers = <<1, 2>>

InvalidSliceRange == {"AssertionError", "ValueError"}

\* C6: unpad of a sentinel-free PaddedTensor whose orig_shape has the rank of
\* its buffer raises exactly when some dimension whose logical size differs
\* from the extent violates 0 < logical <= extent; otherwise it returns a
\* buffer of the logical shape, slicing exactly the dimensions that differ.
C6_Materialize ==
    (/\ ret.err # "unset"
     /\ self.kind = "padded"
     /\ ~Has(self.orig_shape, INVALID_ID)
     /\ Len(self.orig_shape) = Len(self.tensor)) =>
        LET differ == {d \in 1..Len(self.tensor) : self.orig_shape[d] # self.tensor[d]}
            bad == \E d \in differ :
                      ~(0 < self.orig_shape[d] /\ self.orig_shape[d] <= self.tensor[d])
        IN /\ bad => ret.err \in InvalidSliceRange
           /\ ~bad => /\ ret.err = "none"
                      /\ ret.shape = self.orig_shape
                      /\ ret.sliced = differ

\* unpad raised on a logical size 0 against an extent 2.
C6_Witness ==
    /\ ret.err = "ValueError"
    /\ self.kind = "padded"
    /\ self.tensor = <<2, 2>>
    /\ self.orig_shape = <<2, 0>>

\* The expanding view whose element counts cannot be reconciled: no
\* wildcard, a candidate whose element count differs from the input's, and a
\* size-1-insertion fallback whose element count differs too.
Unreconcilable(x, o) ==
    LET l == x.orig_shape
        p == x.shape
    IN /\ Len(p) < Len(o)
       /\ Len(p) > 0
       /\ ~Has(o, -1)
       /\ LET pre == p[1] = o[1]
              suf == p[Len(p)] = o[Len(o)]
              c == IF suf THEN ViewSuffixCandidate(l, p, o)
                   ELSE ViewPrefixCandidate(l, p, o)
              f == maybe_insert_1_dims(l, o)
          IN /\ pre \/ suf
             /\ pre => ViewPrefixCandidate(l, p, o).err = "none"
             /\ c.err = "none"
             /\ Prod(c.shape) # Prod(l)
             /\ f.err = "none"
             /\ Prod(f.shape) # Prod(l)

C3_KernelAfterLookupAndInfer ==
    (func \notin {"", "PaddedTensor"}) =>
        LET known == func \in DOMAIN PADDED_OP_TABLE
            r == infer_shapes(PADDED_OP_TABLE[func], orig_in_shapes(args), args)
        IN /\ kernel_calls > 0 => (known /\ r.err = "none")
           /\ (~known /\ pc # "lookup") =>
                 /\ pc = "raised"
                 /\ raised = [err |-> "NotImplementedError", at |-> "lookup"]
                 /\ kernel_calls = 0 /\ out = <<>> /\ orig_out_shapes = <<>>
           /\ (known /\ PastInfer /\ r.err # "none") =>
                 /\ pc = "raised"
                 /\ raised = [err |-> r.err, at |-> "infer"]
                 /\ kernel_calls = 0 /\ out = <<>> /\ orig_out_shapes = <<>>

\* bmm raised in inference (mismatched logical dimensions); no kernel ran.
C3_Witness ==
    /\ func = "bmm" /\ pc = "raised"
    /\ raised = [err |-> "AssertionError", at |-> "infer"]
    /\ kernel_calls = 0

Expanding == func = "view" /\ PastInfer /\ 0 < Len(args[1].shape)
             /\ Len(args[1].shape) < Len(args[2].v)

PrefixMatch == args[1].shape[1] = args[2].v[1]

SuffixMatch == args[1].shape[Len(args[1].shape)] = args[2].v[Len(args[2].v)]

RunLength(p, start, target) ==
    Cardinality({k \in start..Len(p) :
                    \A i \in start..k : Prod(SubSeq(p, start, i)) <= target})

\* The groups of 0-based indices, one per output dimension from j on.
RECURSIVE GreedyGroups(_, _, _, _)
GreedyGroups(p, o, j, start) ==
    IF j > Len(o) THEN <<>>
    ELSE LET n == RunLength(p, start, o[j])
         IN <<[i \in 1..n |-> start + i - 2]>> \o GreedyGroups(p, o, j + 1, start + n)

\* C9: for a collapsing view with all sizes positive, find_mapping gives each
\* output dimension, in order, the maximal run of not-yet-consumed dimensions
\* of P whose running product stays <= O[j], and the inferred logical
\* dimension j is the product of L over that group (1 for an empty group).
C9_CollapseGrouping ==
    (/\ func = "view" /\ PastInfer
     /\ Len(args[1].shape) > Len(args[2].v)
     /\ AllPositive(args[1].shape) /\ AllPositive(args[1].orig_shape)
     /\ AllPositive(args[2].v)) =>
        LET p == args[1].shape
            l == args[1].orig_shape
            o == args[2].v
            g == GreedyGroups(p, o, 1, 1)
        IN /\ raised.at # "infer"
           /\ find_mapping(p, o) = [err |-> "none", mapping |-> g]
           /\ orig_out_shapes =
                 <<[j \in 1..Len(o) |->
                      Prod([k \in 1..Len(g[j]) |-> l[g[j][k] + 1]])]>>

\* Physical (2,2,2) with logical (1,2,2) collapsed to (4,2): groups
\* [[0,1],[2]] and logical (2,2).
C9_Witness ==
    /\ func = "view" /\ pc = "done"
    /\ args[1].shape = <<2, 2, 2>>
    /\ args[1].orig_shape = <<1, 2, 2>>
    /\ args[2].v = <<4, 2>>
    /\ self.orig_shape = <<2, 2>>

\* C4 as stated: for operand logical shapes that conventional broadcasting
\* accepts, the elementwise-binary rule returns the conventional broadcast
\* shape, sizes 0 and 1 included.
C4_Broadcast ==
    (/\ func \in BinaryOps /\ PastInfer
     /\ args[1].kind = "padded" /\ args[2].kind = "padded"
     /\ BroadcastOk(args[1].orig_shape, args[2].orig_shape)) =>
        orig_out_shapes = <<BroadcastShape(args[1].orig_shape, args[2].orig_shape)>>

\* The two matrix operands of mm, addmm and bmm.
MatA == IF func = "addmm" THEN args[2] ELSE args[1]

MatB == IF func = "addmm" THEN args[3] ELSE args[2]

MatmulFamily == {"mm", "addmm", "bmm"}

\* The logical contracted dimensions (and, for bmm, batch dimensions) differ.
ContractionMismatch ==
    LET a == MatA.orig_shape
        b == MatB.orig_shape
    IN IF func = "bmm" THEN a[1] # b[1] \/ a[3] # b[2]
       ELSE a[2] # b[1]

\* C5 as stated: mm, addmm and bmm each raise in inference when the logical
\* contracted (or batch) dimensions of the operands disagree.
C5_Contraction ==
    (func \in MatmulFamily /\ PastInfer /\ ContractionMismatch) =>
        (pc = "raised" /\ raised.at = "infer")

\* C8 as stated: mm and addmm return [A.rows, B.cols] for the matrix
\* operands A and B, whatever the bias; bmm returns [batch, n, p].
C8_MatmulShape ==
    (func \in MatmulFamily /\ PastInfer /\ raised.at # "infer") =>
        LET a == MatA.orig_shape
            b == MatB.orig_shape
        IN orig_out_shapes =
              IF func = "bmm" THEN <<<<a[1], a[2], b[3]>>>>
              ELSE <<<<a[1], b[2]>>>>

Min(a, b) == IF a <= b THEN a ELSE b

\* Length of the longest common suffix / prefix of a and b.
CommonSuffixLen(a, b) ==
    Cardinality({k \in 1..Min(Len(a), Len(b)) :
                    \A i \in 1..k : a[Len(a) + 1 - i] = b[Len(b) + 1 - i]})

CommonPrefixLen(a, b) ==
    Cardinality({k \in 1..Min(Len(a), Len(b)) : \A i \in 1..k : a[i] = b[i]})

\* C10 as stated: strip_common_suffix(a, b) returns a and b without their
\* longest common suffix and strip_common_prefix(a, b) without their longest
\* common prefix, for all integer lists, one list being a complete suffix or
\* prefix of the other and a = b included; linear therefore maps logical
\* (..., in) x (out, in) to (..., out).
C10_StripCommon ==
    /\ func = "strip_common_suffix" =>
          LET a == args[1].v
              b == args[2].v
              k == CommonSuffixLen(a, b)
          IN ret = Pair(SubSeq(a, 1, Len(a) - k), SubSeq(b, 1, Len(b) - k))
    /\ func = "strip_common_prefix" =>
          LET a == args[1].v
              b == args[2].v
              k == CommonPrefixLen(a, b)
          IN ret = Pair(SubSeq(a, k + 1, Len(a)), SubSeq(b, k + 1, Len(b)))
    /\ (func = "linear" /\ raised.err # "RuntimeError"
          /\ args[1].orig_shape[Len(args[1].orig_shape)] = args[2].shape[2]) =>
          /\ pc = "done"
          /\ self.orig_shape =
                SubSeq(args[1].orig_shape, 1, Len(args[1].orig_shape) - 1)
                   \o <<args[2].shape[1]>>

\* The tensor-like operands of the activation, top-level and nested.
Operands ==
    {args[i] : i \in {j \in 1..Len(args) : args[j].kind \in {"tensor", "padded"}}}
    \cup UNION {{args[i].v[j] : j \in {n \in 1..Len(args[i].v) :
                                          args[i].v[n].kind \in {"tensor", "padded"}}} :
                i \in {j \in 1..Len(args) : args[j].kind = "tensors"}}

\* C11 as stated: after the Normalize step every tensor-like operand,
\* positional or nested inside a list argument, is a PaddedTensor, one that
\* was raw having multiplier 1 everywhere and logical shape = physical
\* shape; infer_shapes never meets an operand without a logical shape.
C11_NormalizeNested ==
    (func \in DOMAIN PADDED_OP_TABLE /\ (pc = "infer" \/ PastInfer)) =>
        /\ \A x \in Operands : x.kind = "padded"
        /\ raised.at = "infer" => raised.err # "AttributeError"

\* C12: convert_tensor_results keeps the structure of the kernel result; the
\* leaf at (1-based) flat position i that is a plain tensor with i <= the
\* number of inferred shapes becomes a PaddedTensor with multiplier 1 on every
\* dimension, logical shape the i-th inferred shape and the kernel's buffer
\* unpadded; every other leaf is returned as it was.
C12_WrapResults ==
    (func = "convert_tensor_results") =>
        LET flat_in == tree_flatten(args)
            flat_out == tree_flatten(out)
        IN /\ Len(out) = Len(args)
           /\ \A i \in 1..Len(args) :
                 /\ (args[i].kind = "tuple") <=> (out[i].kind = "tuple")
                 /\ args[i].kind = "tuple" => Len(out[i].v) = Len(args[i].v)
           /\ Len(flat_out) = Len(flat_in)
           /\ \A i \in 1..Len(flat_in) :
                 IF flat_in[i].kind = "tensor" /\ i <= Len(orig_out_shapes)
                 THEN /\ flat_out[i].kind = "padded"
                      /\ flat_out[i].multipliers = Ones(Len(flat_in[i].shape))
                      /\ flat_out[i].orig_shape = orig_out_shapes[i]
                      /\ flat_out[i].tensor = flat_in[i].shape
                      /\ flat_out[i].shape = flat_in[i].shape
                 ELSE /\ flat_out[i].kind = flat_in[i].kind
                      /\ flat_out[i] = flat_in[i]

\* A result (scalar, (tensor, tensor)) with two inferred shapes: the scalar
\* is kept, the first tensor is wrapped with the second inferred shape, the
\* last tensor, past the inferred shapes, is kept raw.
C12_Witness ==
    /\ func = "convert_tensor_results"
    /\ args = <<Scalar(2), Tuple(<<RawTensor(<<1>>), RawTensor(<<2>>)>>)>>
    /\ orig_out_shapes = <<<<1>>, <<2>>>>
    /\ out = <<Scalar(2),
               Tuple(<<PaddedTensor(<<1>>, <<1>>, <<2>>), RawTensor(<<2>>)>>)>>

\* C13: for a buffer T wrapped with positive multipliers, one per
\* dimension, every low pad width is 0 and every high pad width is
\* padded_shape[d] - shape[d]; the physical buffer holds T's element at every
\* index of T and the neutral element elsewhere; and unpad returns a buffer
\* with T's shape and T's element at every index.
C13_RoundTrip ==
    (func = "PaddedTensor" /\ self.kind = "padded") =>
        LET T == args[1]
            m == args[2].v
            n == Len(T.shape)
            pad == get_pad(T.shape, m)
        IN /\ \A d \in 1..n :
                 /\ pad[2 * (n - d) + 1] = 0
                 /\ pad[2 * (n - d) + 2] = self.tensor[d] - T.shape[d]
           /\ DOMAIN self.data = Indices(self.tensor)
           /\ \A idx \in Indices(self.tensor) :
                 self.data[idx] = IF idx \in Indices(T.shape) THEN T.data[idx] ELSE 0
           /\ ret.err # "unset" =>
                 /\ ret.err = "none"
                 /\ ret.shape = T.shape
                 /\ ret.data = T.data

\* A (2,3) buffer wrapped with multipliers (1,2), padded to (2,4), and
\* unpadded again.
C13_Witness ==
    /\ func = "PaddedTensor" /\ self.kind = "padded"
    /\ args[1].shape = <<2, 3>>
    /\ args[2].v = <<1, 2>>
    /\ self.tensor = <<2, 4>>
    /\ ret.err = "none"
    /\ ret.shape = <<2, 3>>

\* C14 as stated: for a collapsing view with all sizes positive and
\* prod(P) = prod(O), every dimension index of P lies in exactly one group of
\* find_mapping(P, O), and the inferred logical output shape has as many
\* elements as the logical input shape L.
C14_Partition ==
    (/\ func = "view" /\ PastInfer
     /\ Len(args[1].shape) > Len(args[2].v)
     /\ AllPositive(args[1].shape) /\ AllPositive(args[1].orig_shape)
     /\ AllPositive(args[2].v)
     /\ Prod(args[1].shape) = Prod(args[2].v)) =>
        LET p == args[1].shape
            l == args[1].orig_shape
            g == find_mapping(p, args[2].v).mapping
        IN /\ raised.at # "infer"
           /\ \A i \in 0..(Len(p) - 1) :
                 Cardinality({<<j, k>> \in (1..Len(g)) \X (1..Len(p)) :
                                 k <= Len(g[j]) /\ g[j][k] = i}) = 1
           /\ Len(orig_out_shapes) = 1
           /\ Prod(orig_out_shapes[1]) = Prod(l)

=============================================================================
